---- MODULE Spec2Model ----
(***************************************************************************)
(* Model of src/automation/orchestrator.py: the Belief and Task records,   *)
(* the Orchestrator's two stores (insertion-ordered dicts) and its five    *)
(* methods.  Probabilities and gains are exact rationals <<num, den>>.     *)
(***************************************************************************)
EXTENDS Integers, Sequences, FiniteSets

\* beliefs, tasks: the Orchestrator's two dicts
\* call, ret, raised: the last method call with its arguments, what it
\*     returned and whether it raised
\* hist, order: history of the calls, read by the properties only: per belief
\*     key the arguments of the calls since its last add_belief, and the keys
\*     of each store in the order of their first insertion
VARIABLES beliefs, tasks, call, ret, raised, hist, order

vars == <<beliefs, tasks, call, ret, raised, hist, order>>

(***************************************************************************)
(* Rational arithmetic: the values of Python's float fields, kept exact    *)
(***************************************************************************)
Abs(n) == IF n < 0 THEN -n ELSE n

RECURSIVE GCD(_, _)
GCD(a, b) == IF b = 0 THEN a ELSE GCD(b, a % b)

\* the normal form of n/d (d # 0): lowest terms, positive denominator
Rat(n, d) ==
    LET g == GCD(Abs(n), Abs(d))
        s == IF d < 0 THEN -1 ELSE 1
    IN  <<(s * n) \div g, (s * d) \div g>>

Zero == Rat(0, 1)
One == Rat(1, 1)

RatAdd(a, b) == Rat(a[1] * b[2] + b[1] * a[2], a[2] * b[2])
RatSub(a, b) == Rat(a[1] * b[2] - b[1] * a[2], a[2] * b[2])
RatMul(a, b) == Rat(a[1] * b[1], a[2] * b[2])
\* a / b for b # Zero
RatDiv(a, b) == Rat(a[1] * b[2], a[2] * b[1])
RatLess(a, b) == a[1] * b[2] < b[1] * a[2]
RatLeq(a, b) == a[1] * b[2] <= b[1] * a[2]

(***************************************************************************)
(* Bounds and input sets                                                   *)
(***************************************************************************)
\* probabilities handed to the methods are n/ProbDen
ProbDen == 3

\* the probabilities in [0,1] and one value outside, which the code accepts
\* as it accepts any number
Probabilities == {Rat(n, ProbDen) : n \in 0..ProbDen}
Numbers == Probabilities \cup {Rat(ProbDen + 1, ProbDen)}

BeliefKeys == {"api", "db"}
Hypotheses == {"GraphQL API works", "DB schema supports new field"}

TaskIds == {"1", "2", "3"}
Names == {"Create user profile page", "Update database schema"}
\* "9" is never the id of a stored task
DependsOn == {<<>>, <<"2", "9">>}
Estimates == {3, 5}
Gains == {Rat(5, 10), Rat(7, 10), Rat(9, 10)}
Confidences == {Rat(4, 5), Rat(17, 20)}

(***************************************************************************)
(* dict: an insertion-ordered mapping, a sequence of <<key, value>> items  *)
(***************************************************************************)
DictKeys(d) == [i \in 1..Len(d) |-> d[i][1]]
DictValues(d) == [i \in 1..Len(d) |-> d[i][2]]
DictHas(d, k) == \E i \in 1..Len(d) : d[i][1] = k
DictIndex(d, k) == CHOOSE i \in 1..Len(d) : d[i][1] = k
DictGet(d, k) == d[DictIndex(d, k)][2]

\* d[k] = v: an existing key keeps its position, a new key goes last
DictSet(d, k, v) ==
    IF DictHas(d, k)
    THEN [d EXCEPT ![DictIndex(d, k)] = <<k, v>>]
    ELSE Append(d, <<k, v>>)

(***************************************************************************)
(* class Belief                                                            *)
(***************************************************************************)
\* Belief(hypothesis=..., prior=...): likelihood defaults to 1.0 and
\* __post_init__ sets posterior to prior
Belief(hypothesis, prior) ==
    [hypothesis |-> hypothesis, prior |-> prior,
     likelihood |-> One, posterior |-> prior]

\* a faulty variant: the second term without the complement of the likelihood
Denominator_nocomplement(prior, likelihood) ==
    RatAdd(RatMul(prior, likelihood), RatMul(RatSub(One, prior), likelihood))

\* a faulty variant: each probability paired with the other's complement
Denominator_swapped(prior, likelihood) ==
    RatAdd(RatMul(prior, RatSub(One, likelihood)),
           RatMul(RatSub(One, prior), likelihood))

\* self.prior * likelihood + (1 - self.prior) * (1 - likelihood)
Denominator(prior, likelihood) ==
    RatAdd(RatMul(prior, likelihood),
           RatMul(RatSub(One, prior), RatSub(One, likelihood)))

\* a faulty variant: sequential chaining, the previous posterior used as the prior
Belief_update_chained(self, likelihood) ==
    LET s1 == [self EXCEPT !.likelihood = likelihood]
        den == Denominator(self.posterior, likelihood)
    IN  IF den = Zero
        THEN [self |-> s1, raised |-> TRUE]
        ELSE [self |-> [s1 EXCEPT !.posterior =
                            RatDiv(RatMul(self.posterior, likelihood), den)],
              raised |-> FALSE]

\* a faulty variant: the posterior becomes the new prior as well
Belief_update_newprior(self, likelihood) ==
    LET s1 == [self EXCEPT !.likelihood = likelihood]
        den == Denominator(self.prior, likelihood)
    IN  IF den = Zero
        THEN [self |-> s1, raised |-> TRUE]
        ELSE LET p == RatDiv(RatMul(self.prior, likelihood), den)
             IN  [self |-> [s1 EXCEPT !.posterior = p, !.prior = p],
                  raised |-> FALSE]

\* a faulty variant: odds instead of a probability (the first term left out of the
\* denominator)
Belief_update_odds(self, likelihood) ==
    LET s1 == [self EXCEPT !.likelihood = likelihood]
        den == RatMul(RatSub(One, self.prior), RatSub(One, likelihood))
    IN  IF den = Zero
        THEN [self |-> s1, raised |-> TRUE]
        ELSE [self |-> [s1 EXCEPT !.posterior =
                            RatDiv(RatMul(self.prior, likelihood), den)],
              raised |-> FALSE]

\* a faulty variant: the denominator is checked before anything is assigned
Belief_update_atomic(self, likelihood) ==
    LET den == Denominator(self.prior, likelihood)
    IN  IF den = Zero
        THEN [self |-> self, raised |-> TRUE]
        ELSE [self |-> [self EXCEPT !.likelihood = likelihood,
                                    !.posterior =
                            RatDiv(RatMul(self.prior, likelihood), den)],
              raised |-> FALSE]

\* Belief.update: the likelihood is stored first, then the quotient is
\* evaluated; a zero denominator raises ZeroDivisionError before posterior
\* is assigned
Belief_update(self, likelihood) ==
    LET s1 == [self EXCEPT !.likelihood = likelihood]
        den == Denominator(s1.prior, likelihood)
    IN  IF den = Zero
        THEN [self |-> s1, raised |-> TRUE]
        ELSE [self |-> [s1 EXCEPT !.posterior =
                            RatDiv(RatMul(s1.prior, likelihood), den)],
              raised |-> FALSE]

(***************************************************************************)
(* class Task                                                              *)
(***************************************************************************)
Task(id, name, depends_on, estimate, expected_gain, confidence) ==
    [id |-> id, name |-> name, depends_on |-> depends_on,
     estimate |-> estimate, expected_gain |-> expected_gain,
     confidence |-> confidence]

(***************************************************************************)
(* class Orchestrator: the methods as functions of the store they touch    *)
(***************************************************************************)
add_belief(bs, key, hypothesis, prior) ==
    DictSet(bs, key, Belief(hypothesis, prior))

\* a faulty variant: an unknown key gets a belief made on the spot
update_belief_create(bs, key, likelihood) ==
    IF DictHas(bs, key)
    THEN LET r == Belief_update(DictGet(bs, key), likelihood)
         IN  [beliefs |-> DictSet(bs, key, r.self), raised |-> r.raised]
    ELSE [beliefs |-> DictSet(bs, key, [Belief("", likelihood)
                                          EXCEPT !.likelihood = likelihood]),
          raised |-> FALSE]

\* the Belief object is mutated in place, so what update assigned before it
\* raised stays in the store
update_belief(bs, key, likelihood) ==
    IF DictHas(bs, key)
    THEN LET r == Belief_update(DictGet(bs, key), likelihood)
         IN  [beliefs |-> DictSet(bs, key, r.self), raised |-> r.raised]
    ELSE [beliefs |-> bs, raised |-> FALSE]

\* a faulty variant: a re-added task keeps the old estimate and confidence
add_task_merge(ts, task) ==
    IF DictHas(ts, task.id)
    THEN DictSet(ts, task.id,
                 [task EXCEPT !.estimate = DictGet(ts, task.id).estimate,
                              !.confidence = DictGet(ts, task.id).confidence])
    ELSE DictSet(ts, task.id, task)

add_task(ts, task) == DictSet(ts, task.id, task)

\* s with t put before the first element of strictly smaller expected_gain
InsertByGain(s, t) ==
    LET smaller == {i \in 1..Len(s) : RatLess(s[i].expected_gain, t.expected_gain)}
        at == IF smaller = {} THEN Len(s) + 1
              ELSE CHOOSE i \in smaller : \A j \in smaller : i <= j
    IN  SubSeq(s, 1, at - 1) \o <<t>> \o SubSeq(s, at, Len(s))

\* s with t put before the first element of smaller or equal expected_gain
InsertByGainFirst(s, t) ==
    LET notlarger == {i \in 1..Len(s) : RatLeq(s[i].expected_gain, t.expected_gain)}
        at == IF notlarger = {} THEN Len(s) + 1
              ELSE CHOOSE i \in notlarger : \A j \in notlarger : i <= j
    IN  SubSeq(s, 1, at - 1) \o <<t>> \o SubSeq(s, at, Len(s))

\* sorted(s, key=lambda t: t.expected_gain, reverse=True): a stable sort,
\* equal keys keep their order in s
RECURSIVE sorted_desc(_)
sorted_desc(s) ==
    IF s = <<>> THEN <<>>
    ELSE InsertByGain(sorted_desc(SubSeq(s, 1, Len(s) - 1)), s[Len(s)])

\* an ascending stable sort read backwards: equal keys come out reversed
RECURSIVE sorted_asc_reversed(_)
sorted_asc_reversed(s) ==
    IF s = <<>> THEN <<>>
    ELSE InsertByGainFirst(sorted_asc_reversed(SubSeq(s, 1, Len(s) - 1)), s[Len(s)])

\* a faulty variant: sorted(...)[::-1] in place of reverse=True
task_graph_reversed(ts) == sorted_asc_reversed(DictValues(ts))

task_graph(ts) == sorted_desc(DictValues(ts))

BeliefEntry(b) ==
    [hypothesis |-> b.hypothesis, prior |-> b.prior,
     likelihood |-> b.likelihood, posterior |-> b.posterior]

TaskEntry(t) ==
    [id |-> t.id, name |-> t.name, dependsOn |-> t.depends_on,
     estimate |-> t.estimate, expectedGain |-> t.expected_gain,
     confidence |-> t.confidence]

\* a faulty variant: the tasks are listed as stored, not through task_graph
to_json_unsorted(bs, ts) ==
    [status |-> "ready_for_execution",
     beliefs |-> [i \in 1..Len(bs) |-> BeliefEntry(DictValues(bs)[i])],
     tasks |-> [i \in 1..Len(ts) |-> TaskEntry(DictValues(ts)[i])]]

\* the document json.dumps renders: the objects and lists in the order built
to_json(bs, ts) ==
    [status |-> "ready_for_execution",
     beliefs |-> [i \in 1..Len(bs) |-> BeliefEntry(DictValues(bs)[i])],
     tasks |-> [i \in 1..Len(ts) |-> TaskEntry(task_graph(ts)[i])]]

(***************************************************************************)
(* The state machine: one action per method call                           *)
(***************************************************************************)
None == [kind |-> "None"]

Range(s) == {s[i] : i \in 1..Len(s)}

\* s, with k appended the first time it is seen
FirstSeen(s, k) == IF k \in Range(s) THEN s ELSE Append(s, k)

\* Orchestrator.__init__: both stores empty
Init ==
    /\ beliefs = <<>>
    /\ tasks = <<>>
    /\ call = [op |-> "__init__"]
    /\ ret = None
    /\ raised = FALSE
    /\ hist = <<>>
    /\ order = [beliefs |-> <<>>, tasks |-> <<>>]

\* call.over: the status of the key before the call ("new" when the store
\* did not hold it)
AddBelief(key, hypothesis, prior) ==
    /\ beliefs' = add_belief(beliefs, key, hypothesis, prior)
    /\ call' = [op |-> "add_belief", key |-> key,
                hypothesis |-> hypothesis, prior |-> prior,
                over |-> IF DictHas(hist, key)
                         THEN DictGet(hist, key).status ELSE "new"]
    /\ ret' = None
    /\ raised' = FALSE
    /\ hist' = DictSet(hist, key,
                       [prior |-> prior, last |-> One, status |-> "added"])
    /\ order' = [order EXCEPT !.beliefs = FirstSeen(@, key)]
    /\ UNCHANGED tasks

\* hist[key].prior: the prior of the last add_belief; hist[key].last: the
\* likelihood of the last update that returned since; hist[key].status: what
\* the last call on the key was, "added", "updated" (it returned) or "failed"
\* (it raised)
UpdateBelief(key, likelihood) ==
    LET r == update_belief(beliefs, key, likelihood)
    IN  /\ beliefs' = r.beliefs
        /\ call' = [op |-> "update_belief", key |-> key,
                    likelihood |-> likelihood,
                    over |-> IF DictHas(hist, key)
                             THEN DictGet(hist, key).status ELSE "new"]
        /\ ret' = None
        /\ raised' = r.raised
        /\ hist' = IF ~DictHas(hist, key) THEN hist
                   ELSE IF r.raised
                   THEN DictSet(hist, key,
                                [DictGet(hist, key) EXCEPT !.status = "failed"])
                   ELSE DictSet(hist, key,
                                [DictGet(hist, key) EXCEPT
                                    !.status = "updated",
                                    !.last = likelihood])
        /\ UNCHANGED <<tasks, order>>

AddTask(task) ==
    /\ tasks' = add_task(tasks, task)
    /\ call' = [op |-> "add_task", task |-> task,
                over |-> IF ~DictHas(tasks, task.id) THEN "new"
                         ELSE IF DictGet(tasks, task.id) = task THEN "same"
                         ELSE "changed"]
    /\ ret' = None
    /\ raised' = FALSE
    /\ order' = [order EXCEPT !.tasks = FirstSeen(@, task.id)]
    /\ UNCHANGED <<beliefs, hist>>

TaskGraph ==
    /\ call' = [op |-> "task_graph"]
    /\ ret' = [kind |-> "list", value |-> task_graph(tasks)]
    /\ raised' = FALSE
    /\ UNCHANGED <<beliefs, tasks, hist, order>>

ToJson ==
    /\ call' = [op |-> "to_json"]
    /\ ret' = [kind |-> "str", value |-> to_json(beliefs, tasks)]
    /\ raised' = FALSE
    /\ UNCHANGED <<beliefs, tasks, hist, order>>

\* the demonstration's two tasks
DemoTasks ==
    {Task("1", "Create user profile page", <<>>, 5, Rat(9, 10), Rat(17, 20)),
     Task("2", "Update database schema", <<"1">>, 3, Rat(7, 10), Rat(4, 5))}

\* the arguments of add_belief: any hypothesis and number under "api", the
\* demonstration's belief under "db"
BeliefInputs ==
    {<<"api", h, p>> : h \in Hypotheses, p \in Numbers}
        \cup {<<"db", "DB schema supports new field", Rat(1, 2)>>}

\* the arguments of add_task: any field values under id "1", the
\* demonstration's second task with any gain under ids "2" and "3"
TaskInputs ==
    {Task("1", n, d, e, g, c) : n \in Names, d \in DependsOn, e \in Estimates,
                                g \in Gains, c \in Confidences}
        \cup {Task(id, "Update database schema", <<"1">>, 3, g, Rat(4, 5)) :
                  id \in TaskIds \ {"1"}, g \in Gains}

\* any call on the belief store, the demonstration's tasks
Next ==
    \/ \E a \in BeliefInputs : AddBelief(a[1], a[2], a[3])
    \/ \E key \in BeliefKeys, likelihood \in Numbers :
          UpdateBelief(key, likelihood)
    \/ \E task \in DemoTasks : AddTask(task)
    \/ TaskGraph
    \/ ToJson

Spec == Init /\ [][Next]_vars

\* any call on the task store, the demonstration's calls on the "api" belief
NextTasks ==
    \/ AddBelief("api", "GraphQL API works", Rat(4, 5))
    \/ UpdateBelief("api", Rat(9, 10))
    \/ \E task \in TaskInputs : AddTask(task)
    \/ TaskGraph
    \/ ToJson

SpecTasks == Init /\ [][NextTasks]_vars

(***************************************************************************)
(* Properties                                                              *)
(***************************************************************************)
StoredKeys == {k \in BeliefKeys : DictHas(beliefs, k)}

\* Bayes' rule for two outcomes, written out from the documentation
BayesNum(p, l) == RatMul(p, l)
BayesDen(p, l) ==
    RatAdd(RatMul(p, l), RatMul(RatSub(One, p), RatSub(One, l)))
\* x is the value of the rule for prior p and likelihood l (and there is one)
IsBayes(x, p, l) ==
    /\ BayesDen(p, l) # Zero
    /\ x = RatDiv(BayesNum(p, l), BayesDen(p, l))

InUnit(x) == RatLeq(Zero, x) /\ RatLeq(x, One)

\* no key twice in the dict
NoDuplicateKeys(d) ==
    \A i, j \in 1..Len(d) : d[i][1] = d[j][1] => i = j

\* C1 as stated: every stored belief that no raising update has touched,
\* the freshly added ones included, has the posterior Bayes' rule gives for
\* its current prior and likelihood (read in the claim's favour where the
\* rule has no value: a zero denominator counts as agreeing).
C1_PosteriorAlwaysBayes ==
    \A k \in StoredKeys :
        DictGet(hist, k).status # "failed" =>
            LET b == DictGet(beliefs, k)
            IN  BayesDen(b.prior, b.likelihood) # Zero
                    => IsBayes(b.posterior, b.prior, b.likelihood)

\* C1 amended: a belief whose last call was an update that returned has the
\* posterior Bayes' rule gives for its current prior and likelihood; a belief
\* not updated since its add_belief has likelihood 1 and posterior = prior.
C1_PosteriorBayesAfterUpdate ==
    \A k \in StoredKeys :
        LET b == DictGet(beliefs, k)
            st == DictGet(hist, k).status
        IN  /\ st = "updated" => IsBayes(b.posterior, b.prior, b.likelihood)
            /\ st = "added" => b.likelihood = One /\ b.posterior = b.prior

\* "api" updated to a posterior other than its prior while "db" is as added,
\* with a posterior that is not the rule's value for likelihood 1
C1_Witness ==
    /\ StoredKeys = {"api", "db"}
    /\ DictGet(hist, "api").status = "updated"
    /\ DictGet(beliefs, "api").posterior # DictGet(beliefs, "api").prior
    /\ DictGet(hist, "db").status = "added"
    /\ ~IsBayes(DictGet(beliefs, "db").posterior, DictGet(beliefs, "db").prior,
                DictGet(beliefs, "db").likelihood)

\* C2: once an update on a stored key has returned, the belief holds the
\* prior of the most recent add_belief, the likelihood L of the last update
\* that returned, and the posterior Bayes' rule gives for that prior and L:
\* the updates before the last one have left no trace.
C2_LastUpdateFromOriginalPrior ==
    \A k \in StoredKeys :
        DictGet(hist, k).status = "updated" =>
            LET b == DictGet(beliefs, k)
                h == DictGet(hist, k)
            IN  /\ b.prior = h.prior
                /\ b.likelihood = h.last
                /\ IsBayes(b.posterior, h.prior, h.last)

\* a second update in a row on "api" has returned, for a prior strictly
\* between 0 and 1 and with a posterior other than the prior
C2_Witness ==
    /\ call.op = "update_belief" /\ call.key = "api" /\ ~raised
    /\ call.over = "updated"
    /\ DictHas(beliefs, "api")
    /\ DictGet(beliefs, "api").posterior # DictGet(beliefs, "api").prior
    /\ InUnit(DictGet(beliefs, "api").prior)
    /\ DictGet(beliefs, "api").prior \notin {Zero, One}

\* C3: update_belief with a key the store does not hold does not raise and
\* leaves the belief store as it was.
C3_AbsentKeyUpdateIgnored ==
    [][(call'.op = "update_belief" /\ ~DictHas(beliefs, call'.key))
          => (~raised' /\ beliefs' = beliefs /\ tasks' = tasks)]_vars

\* update_belief("db", L) was just called with "db" never added and with a
\* likelihood that zeroes the denominator of the stored "api" belief
C3_Witness ==
    /\ call.op = "update_belief" /\ call.key = "db" /\ call.over = "new"
    /\ ~raised
    /\ StoredKeys = {"api"}
    /\ BayesDen(DictGet(beliefs, "api").prior, call.likelihood) = Zero

\* C4: what task_graph returns holds each stored task once, by expected_gain
\* non-increasing, tasks of equal gain in the order their ids were first
\* inserted.
C4_TaskGraphOrder ==
    ret.kind = "list" =>
        LET g == ret.value
            pos(i) == CHOOSE n \in 1..Len(order.tasks) : order.tasks[n] = g[i].id
        IN  /\ Len(g) = Len(order.tasks)
            /\ \A i \in 1..Len(g) :
                  /\ g[i].id \in Range(order.tasks)
                  /\ DictHas(tasks, g[i].id)
                  /\ g[i] = DictGet(tasks, g[i].id)
            /\ \A i, j \in 1..Len(g) :
                  i < j =>
                     /\ g[i].id # g[j].id
                     /\ RatLeq(g[j].expected_gain, g[i].expected_gain)
                     /\ g[i].expected_gain = g[j].expected_gain
                           => pos(i) < pos(j)

\* task_graph returned three tasks in another order than stored, two of them
\* of equal gain, the first of them depending on a task listed after it
C4_Witness ==
    /\ ret.kind = "list"
    /\ Len(ret.value) = 3
    /\ ret.value # DictValues(tasks)
    /\ \E i, j \in 1..3 :
          i < j /\ ret.value[i].expected_gain = ret.value[j].expected_gain
    /\ \E j \in 2..3 : ret.value[j].id \in Range(ret.value[1].depends_on)

\* C5: after add_task(t) the store holds exactly t under t.id, one task per
\* id; after add_belief(k, h, p) the store holds exactly (h, p, 1, p) under
\* k, one belief per key, whatever was there before.
C5_AddReplaces ==
    /\ NoDuplicateKeys(tasks) /\ NoDuplicateKeys(beliefs)
    /\ call.op = "add_task" =>
          /\ DictHas(tasks, call.task.id)
          /\ DictGet(tasks, call.task.id) = call.task
          /\ Len(tasks) = Len(order.tasks)
    /\ call.op = "add_belief" =>
          /\ DictHas(beliefs, call.key)
          /\ DictGet(beliefs, call.key) =
                [hypothesis |-> call.hypothesis, prior |-> call.prior,
                 likelihood |-> One, posterior |-> call.prior]
          /\ Len(beliefs) = Len(order.beliefs)

\* add_task has just replaced a stored task by a different one
C5_Witness ==
    /\ call.op = "add_task" /\ call.over = "changed"
    /\ Len(tasks) = 3

\* add_belief has just replaced a belief that had been updated
C5_WitnessBelief ==
    /\ call.op = "add_belief" /\ call.over = "updated"

\* C6 as stated: an update of a stored belief with prior 0 and likelihood 0,
\* or with prior 1 and likelihood 1, raises.
C6_ZeroZeroAndOneOneRaise ==
    (/\ call.op = "update_belief"
     /\ DictHas(beliefs, call.key)
     /\ \/ DictGet(beliefs, call.key).prior = Zero /\ call.likelihood = Zero
        \/ DictGet(beliefs, call.key).prior = One /\ call.likelihood = One)
        => raised

\* C6 amended: the update raises for prior 0 with likelihood 1 and for prior
\* 1 with likelihood 0; for prior 0 with likelihood 0 and prior 1 with
\* likelihood 1 it returns, the posterior being 0 and 1.
C6_ZeroOneAndOneZeroRaise ==
    (call.op = "update_belief" /\ DictHas(beliefs, call.key)) =>
        LET b == DictGet(beliefs, call.key)
        IN  /\ (b.prior = Zero /\ call.likelihood = One) => raised
            /\ (b.prior = One /\ call.likelihood = Zero) => raised
            /\ (b.prior = Zero /\ call.likelihood = Zero)
                  => ~raised /\ b.posterior = Zero
            /\ (b.prior = One /\ call.likelihood = One)
                  => ~raised /\ b.posterior = One

\* an update with likelihood 0 of a belief of prior 1 has just raised
C6_Witness ==
    /\ call.op = "update_belief" /\ raised
    /\ DictHas(beliefs, call.key)
    /\ DictGet(beliefs, call.key).prior = One
    /\ call.likelihood = Zero

\* C7: the document to_json returns has the status "ready_for_execution",
\* one beliefs entry per stored key in the order the keys were first
\* inserted, and the tasks of task_graph in its order, dependsOn being the
\* stored depends_on.
C7_Snapshot ==
    ret.kind = "str" =>
        LET doc == ret.value
            g == task_graph(tasks)
        IN  /\ doc.status = "ready_for_execution"
            /\ Len(doc.beliefs) = Len(order.beliefs)
            /\ Range(order.beliefs) = StoredKeys
            /\ \A i \in 1..Len(order.beliefs) :
                  LET b == DictGet(beliefs, order.beliefs[i])
                  IN  doc.beliefs[i] =
                         [hypothesis |-> b.hypothesis, prior |-> b.prior,
                          likelihood |-> b.likelihood,
                          posterior |-> b.posterior]
            /\ Len(doc.tasks) = Len(g)
            /\ \A i \in 1..Len(g) :
                  doc.tasks[i] =
                     [id |-> g[i].id, name |-> g[i].name,
                      dependsOn |-> DictGet(tasks, g[i].id).depends_on,
                      estimate |-> g[i].estimate,
                      expectedGain |-> g[i].expected_gain,
                      confidence |-> g[i].confidence]

\* to_json returned with "db" inserted before "api", both updated since, and
\* task "2" stored before task "1", which it depends on
C7_Witness ==
    /\ ret.kind = "str"
    /\ order.beliefs = <<"db", "api">>
    /\ DictGet(hist, "db").status = "updated"
    /\ DictGet(hist, "api").status = "updated"
    /\ DictKeys(tasks) = <<"2", "1">>
    /\ ret.value.tasks[1].id = "1"
    /\ ret.value.tasks[2].dependsOn = <<"1">>

\* C8: a stored belief with prior and likelihood in [0,1], whose last update
\* did not raise, has its posterior in [0,1].
C8_PosteriorInUnit ==
    \A k \in StoredKeys :
        LET b == DictGet(beliefs, k)
        IN  (/\ InUnit(b.prior) /\ InUnit(b.likelihood)
             /\ DictGet(hist, k).status # "failed")
                => InUnit(b.posterior)

\* an update of "api" returned a posterior strictly between 0 and 1 that is
\* not the prior
C8_Witness ==
    /\ DictHas(beliefs, "api")
    /\ DictGet(hist, "api").status = "updated"
    /\ LET b == DictGet(beliefs, "api")
       IN  /\ InUnit(b.prior) /\ InUnit(b.likelihood)
           /\ RatLess(Zero, b.posterior) /\ RatLess(b.posterior, One)
           /\ b.posterior # b.prior

\* the entries of dict d other than the one under k
Others(d, k) == {d[i] : i \in {n \in 1..Len(d) : d[n][1] # k}}

\* C9: an update that returns changes only the likelihood and posterior of
\* the belief under its key; add_belief leaves the tasks alone; add_task
\* leaves the beliefs and the tasks under other ids alone; task_graph and
\* to_json leave both stores alone.
C9_Frame ==
    [][/\ (call'.op = "update_belief" /\ ~raised' /\ DictHas(beliefs, call'.key))
          => /\ DictKeys(beliefs') = DictKeys(beliefs)
             /\ Others(beliefs', call'.key) = Others(beliefs, call'.key)
             /\ DictGet(beliefs', call'.key).hypothesis
                   = DictGet(beliefs, call'.key).hypothesis
             /\ DictGet(beliefs', call'.key).prior
                   = DictGet(beliefs, call'.key).prior
             /\ tasks' = tasks
       /\ call'.op = "add_belief" => tasks' = tasks
       /\ call'.op = "add_task"
          => /\ beliefs' = beliefs
             /\ Others(tasks', call'.task.id) = Others(tasks, call'.task.id)
       /\ call'.op \in {"task_graph", "to_json"}
          => beliefs' = beliefs /\ tasks' = tasks]_vars

\* an update of "api" has returned a new likelihood and posterior with "db"
\* and both tasks stored
C9_Witness ==
    /\ call.op = "update_belief" /\ call.key = "api" /\ ~raised
    /\ StoredKeys = {"api", "db"}
    /\ Len(tasks) = 2
    /\ DictGet(beliefs, "api").likelihood # One
    /\ DictGet(beliefs, "api").posterior # DictGet(beliefs, "api").prior

\* C10: an update of a stored key that raises leaves the belief with the new
\* likelihood and the posterior it had, a pair for which Bayes' rule has no
\* value; everything else is unchanged.
C10_FailedUpdateNotAtomic ==
    [][(call'.op = "update_belief" /\ raised' /\ DictHas(beliefs, call'.key))
          => /\ DictHas(beliefs', call'.key)
             /\ DictGet(beliefs', call'.key) =
                   [DictGet(beliefs, call'.key)
                       EXCEPT !.likelihood = call'.likelihood]
             /\ BayesDen(DictGet(beliefs', call'.key).prior,
                         DictGet(beliefs', call'.key).likelihood) = Zero
             /\ DictKeys(beliefs') = DictKeys(beliefs)
             /\ Others(beliefs', call'.key) = Others(beliefs, call'.key)
             /\ tasks' = tasks]_vars

\* an update of "api" has raised after an earlier one had returned: the
\* stored likelihood is the new one, not the one the posterior was made from
C10_Witness ==
    /\ call.op = "update_belief" /\ call.key = "api" /\ raised
    /\ call.over = "updated"
    /\ DictGet(beliefs, "api").likelihood = call.likelihood
    /\ DictGet(hist, "api").last # call.likelihood
    /\ StoredKeys = {"api", "db"}
    /\ Len(tasks) > 0

====
